---- MODULE Spec2Model ----
(***************************************************************************)
(* github-to-omnifocus: one run of main() in main.js.                      *)
(*                                                                         *)
(* Strings are sequences of one-character strings, so that                 *)
(* String.prototype.startsWith, string concatenation and the regular       *)
(* expression of the pull-request prefix are computed, not assumed.        *)
(***************************************************************************)
EXTENDS Integers, Sequences, FiniteSets, TLC

(***************************************************************************)
(* Bounds of the model.                                                    *)
(***************************************************************************)
\* longest list handed to the two filters in the engine specification
MaxRemote == 2
MaxLocal == 2
\* longest list a remote fetch returns in a run of main()
MaxFetch == 2
\* most tasks the local store holds (over both projects) when main() starts
MaxStore == 1

(***************************************************************************)
(* Strings.                                                                *)
(***************************************************************************)
Digit(d) == <<"0", "1", "2", "3", "4", "5", "6", "7", "8", "9">>[d + 1]

\* Number -> decimal string, as string concatenation converts iss.number
RECURSIVE ToDecimal(_)
ToDecimal(n) == IF n < 10 THEN <<Digit(n)>>
                ELSE ToDecimal(n \div 10) \o <<Digit(n % 10)>>

\* String.prototype.startsWith(p), position 0
StartsWithWhole(s, p) == s = p

StartsWith(s, p) ==
    /\ Len(p) <= Len(s)
    /\ \A i \in 1..Len(p) : s[i] = p[i]

(***************************************************************************)
(* The issues category: raw issue -> PotentialTask  (main.js 63-70).       *)
(***************************************************************************)
sOR == <<"o", "/", "r">>
sT == <<"T">>
sMisc == <<"m", "i", "s", "c">>

\* iss.repository.full_name throws a TypeError when iss.repository is missing
IssueThrows(iss) == ~iss.has_repository

IssuePrefix(iss) == iss.full_name \o <<"#">> \o ToDecimal(iss.number)

\* the title without the prefix
IssueToTaskBare(iss) ==
    [prefix |-> IssuePrefix(iss), title |-> iss.title, body |-> iss.html_url]

IssueToTask(iss) ==
    LET prefix == IssuePrefix(iss)
    IN  [prefix |-> prefix,
         title |-> prefix \o <<" ">> \o iss.title,
         body |-> iss.html_url]

(***************************************************************************)
(* The pull-request category: prefix from html_url  (main.js 97-110).      *)
(*   /^https:\/\/github[^\0]ibm[^\0]com\/([^\/]+)\/([^\/]+)/m              *)
(***************************************************************************)
sHttpsGithub == <<"h", "t", "t", "p", "s", ":", "/", "/",
                  "g", "i", "t", "h", "u", "b">>
sIbm == <<"i", "b", "m">>
sComSlash == <<"c", "o", "m", "/">>
NUL == "NUL"

\* the literal `lit` stands in `s` at position `p`
LitAt(s, p, lit) ==
    /\ p + Len(lit) - 1 <= Len(s)
    /\ \A i \in 1..Len(lit) : s[p + i - 1] = lit[i]

\* [^\0]: one character that is not NUL
AnyAt(s, p) == p <= Len(s) /\ s[p] # NUL

\* end (exclusive) of the longest run of non-slash characters from p
RunEnd(s, p) ==
    LET slashes == {i \in p..Len(s) : s[i] = "/"}
    IN  IF slashes = {} THEN Len(s) + 1
        ELSE CHOOSE i \in slashes : \A j \in slashes : i <= j

\* with the m flag ^ matches at the start and after every line terminator
LineStarts(s) == {1} \cup {i + 1 : i \in {j \in 1..Len(s) : s[j] = "\n"}}

\* the expression matches with ^ at position p
MatchesAt(s, p) ==
    /\ LitAt(s, p, sHttpsGithub)
    /\ AnyAt(s, p + 14)
    /\ LitAt(s, p + 15, sIbm)
    /\ AnyAt(s, p + 18)
    /\ LitAt(s, p + 19, sComSlash)
    /\ LET e1 == RunEnd(s, p + 23)
       IN  /\ e1 > p + 23
           /\ e1 <= Len(s)
           /\ RunEnd(s, e1 + 1) > e1 + 1

\* String.prototype.match: null, or the groups of the leftmost match
UrlMatch(s) ==
    LET starts == {p \in LineStarts(s) : MatchesAt(s, p)}
    IN  IF starts = {} THEN [null |-> TRUE]
        ELSE LET p == CHOOSE q \in starts : \A r \in starts : q <= r
                 e1 == RunEnd(s, p + 23)
                 e2 == RunEnd(s, e1 + 1)
             IN  [null |-> FALSE,
                  g1 |-> SubSeq(s, p + 23, e1 - 1),
                  g2 |-> SubSeq(s, e1 + 1, e2 - 1)]

\* prefix(t) throws a TypeError when m is null
PrThrows(t) == UrlMatch(t.html_url).null

PrPrefix(t) ==
    LET m == UrlMatch(t.html_url)
    IN  m.g1 \o <<"/">> \o m.g2 \o <<"#">> \o ToDecimal(t.number)

PrToTask(pr) ==
    [prefix |-> PrPrefix(pr),
     title |-> PrPrefix(pr) \o <<" ">> \o pr.title,
     body |-> pr.html_url]

(***************************************************************************)
(* The two filters (main.js 146-149 and 174-181).                          *)
(***************************************************************************)
\* Array.prototype.filter is SelectSeq (it keeps the input order),
\* Array.prototype.some is \E over the positions of the array.

\* the filter of addNewIssues: issues with no task whose title starts with
\* the issue's prefix
planCreationsEvery(currentTasks, issues) ==
    LET NoTask(iss) ==
            \E i \in 1..Len(currentTasks) :
                ~StartsWith(currentTasks[i].title, iss.prefix)
    IN  SelectSeq(issues, NoTask)

\* an issue is added once for every task that does not match it
RECURSIVE PerTask(_, _, _)
PerTask(currentTasks, issues, k) ==
    IF k > Len(issues) THEN <<>>
    ELSE LET n == Cardinality({i \in 1..Len(currentTasks) :
                     ~StartsWith(currentTasks[i].title, issues[k].prefix)})
         IN  [j \in 1..n |-> issues[k]] \o PerTask(currentTasks, issues, k + 1)

planCreationsPerTask(currentTasks, issues) == PerTask(currentTasks, issues, 1)

planCreations(currentTasks, issues) ==
    LET NoTask(iss) ==
            ~\E i \in 1..Len(currentTasks) :
                StartsWith(currentTasks[i].title, iss.prefix)
    IN  SelectSeq(issues, NoTask)

\* the filter of completeMissingIssues: tasks whose title starts with no
\* issue prefix
planRetirementsSwapped(currentTasks, issues) ==
    LET issuePrefixes == [i \in 1..Len(issues) |-> issues[i].prefix]
        Missing(t) ==
            ~\E i \in 1..Len(issuePrefixes) :
                StartsWith(issuePrefixes[i], t.title)
    IN  SelectSeq(currentTasks, Missing)

planRetirements(currentTasks, issues) ==
    LET issuePrefixes == [i \in 1..Len(issues) |-> issues[i].prefix]
        Missing(t) ==
            ~\E i \in 1..Len(issuePrefixes) :
                StartsWith(t.title, issuePrefixes[i])
    IN  SelectSeq(currentTasks, Missing)

(***************************************************************************)
(* Inputs: what the remote service returns and what the local store holds. *)
(***************************************************************************)
sIssuesUrl == <<"h", "t", "t", "p", "s", ":", "/", "/", "g", "i", "t", "h",
                "u", "b", ".", "i", "b", "m", ".", "c", "o", "m", "/",
                "o", "/", "r", "/", "i", "s", "s", "u", "e", "s", "/">>
sPullUrl == <<"h", "t", "t", "p", "s", ":", "/", "/", "g", "i", "t", "h",
              "u", "b", ".", "i", "b", "m", ".", "c", "o", "m", "/",
              "o", "/", "r", "/", "p", "u", "l", "l", "/">>
\* a pull request of another host: the expression does not match it
sOtherUrl == <<"h", "t", "t", "p", "s", ":", "/", "/", "g", "i", "t", "h",
               "u", "b", ".", "c", "o", "m", "/",
               "o", "/", "r", "/", "p", "u", "l", "l", "/">>

RawIssue(n) ==
    [has_repository |-> TRUE, full_name |-> sOR, number |-> n, title |-> sT,
     html_url |-> sIssuesUrl \o ToDecimal(n)]

\* an issue that comes without its repository
BareIssue(n) ==
    [RawIssue(n) EXCEPT !.has_repository = FALSE, !.full_name = <<>>]

RawPr(url, n) ==
    [html_url |-> url \o ToDecimal(n), number |-> n, title |-> sT]

\* raw items of the engine specification, of a run's issues and of its PRs
EngineIssuePool == {RawIssue(1), RawIssue(2), RawIssue(12)}
IssuePool == {RawIssue(1), RawIssue(2), RawIssue(12), BareIssue(3)}
PrPool == {RawPr(sPullUrl, 1), RawPr(sOtherUrl, 3)}

\* task names found in the store: tasks made by earlier runs, and one the
\* user wrote
NamePool == {IssueToTask(RawIssue(1)).title, sMisc}
EngineNamePool == NamePool \cup {IssueToTask(RawIssue(2)).title,
                                 IssueToTask(RawIssue(12)).title}

\* the sequences over S of length at most n
SeqUpTo(S, n) == UNION {[1..k -> S] : k \in 0..n}

\* what a listing of the remote service returns: each item once
Listings(S, n) ==
    {l \in SeqUpTo(S, n) : \A i, j \in 1..Len(l) : l[i] = l[j] => i = j}

Categories == {"issues", "prs"}
\* omnifocusIssuesProject and omnifocusPrsProject
ProjectOf(c) == IF c = "issues" THEN "GitHub Issues" ELSE "GitHub PRs"
Projects == {ProjectOf(c) : c \in Categories}
newTaskTag == "github"

(***************************************************************************)
(* State.                                                                  *)
(***************************************************************************)
VARIABLES
    pc,         \* where main() is suspended: [cat, at]
    results,    \* what the remote fetch of each category returned
    issues,     \* the PotentialTasks of each category (const issues, prs)
    tasks,      \* the CurrentTasks listed for each category (var tasks)
    store,      \* the local store: project -> tasks [id, name, completed]
    calls,      \* every create and complete issued to the store, in order,
                \* with the state of its promise
    awaited,    \* the calls the pending Promise.all waits for
    log,        \* what console.log and console.error printed
    engIssues,  \* engine specification: the remote list
    engTasks,   \* engine specification: the local list
    engCreate,  \* engine specification: result of the filter of addNewIssues
    engRetire,  \* engine specification: result of the other filter
    engRan      \* engine specification: the filters that ran

vars == <<pc, results, issues, tasks, store, calls, awaited, log,
          engIssues, engTasks, engCreate, engRetire, engRan>>
mainVars == <<pc, results, issues, tasks, store, calls, awaited, log>>
engVars == <<engIssues, engTasks, engCreate, engRetire, engRan>>

\* the state of main() as one value, so that the code that runs between two
\* suspension points is a composition of functions
Cur == [pc |-> pc, results |-> results, issues |-> issues, tasks |-> tasks,
        store |-> store, calls |-> calls, awaited |-> awaited, log |-> log]

Becomes(st) ==
    /\ pc' = st.pc
    /\ results' = st.results
    /\ issues' = st.issues
    /\ tasks' = st.tasks
    /\ store' = st.store
    /\ calls' = st.calls
    /\ awaited' = st.awaited
    /\ log' = st.log

At(c, where) == [cat |-> c, at |-> where]

(***************************************************************************)
(* The local store (module ./omnifocus): listTasks, createTask and         *)
(* completeTask of the store's capability contract.                        *)
(***************************************************************************)
AllStoreTasks(st) ==
    UNION {{st[p][i] : i \in 1..Len(st[p])} : p \in Projects}

FreshId(st) ==
    LET ids == {t.id : t \in AllStoreTasks(st)}
    IN  IF ids = {} THEN 1
        ELSE 1 + CHOOSE m \in ids : \A i \in ids : i <= m

\* tasksForProject: the open tasks of the project
tasksForProject(st, project) ==
    LET Open(t) == ~t.completed
    IN  SelectSeq(st[project], Open)

\* addNewTask, once it has succeeded
addNewTask(st, project, title, tag, body) ==
    [st EXCEPT ![project] =
        Append(@, [id |-> FreshId(st), name |-> title, completed |-> FALSE])]

\* markTaskComplete, once it has succeeded
markTaskComplete(st, id) ==
    [p \in Projects |->
        [i \in 1..Len(st[p]) |->
            IF st[p][i].id = id
            THEN [st[p][i] EXCEPT !.completed = TRUE]
            ELSE st[p][i]]]

(***************************************************************************)
(* main(): the code between two suspension points.                         *)
(***************************************************************************)
Log(st, entry) == [st EXCEPT !.log = Append(@, entry)]

Info(c, kind, n) == [level |-> "log", cat |-> c, kind |-> kind, n |-> n]
Text(c, kind, text) ==
    [level |-> "log", cat |-> c, kind |-> kind, text |-> text]
Error(c, where, err) ==
    [level |-> "error", cat |-> c, kind |-> where, err |-> err]

\* the errors: a rejected fetch, a TypeError of prefix(), a rejected action
FetchError(what) == [src |-> what, call |-> 0]
ActionError(i) == [src |-> "action", call |-> i]

\* line 130: main() returns
Return(st) == [st EXCEPT !.pc = At("none", "returned")]

\* lines 94-95: the pull-request pass begins with users.getAuthenticated
StartPrs(st) == [st EXCEPT !.pc = At("prs", "user")]

\* lines 58-59: the issues pass begins with issues.list
StartIssues(st) == [st EXCEPT !.pc = At("issues", "remote")]

\* what follows the try statement of a category
AfterPass(st, c) == IF c = "issues" THEN StartPrs(st) ELSE Return(st)

\* lines 88-90 and 127-129: the catch clause of a category
PassCatchRethrows(st, c, err) == Return(Log(st, Error(c, "pass", err)))

\* the pass is begun again after its first failure
PassCatchRetries(st, c, err) ==
    LET s1 == Log(st, Error(c, "pass", err))
    IN  IF \E k \in 1..Len(st.log) :
               st.log[k].cat = c /\ st.log[k].kind = "pass"
        THEN AfterPass(s1, c)
        ELSE IF c = "issues" THEN StartIssues(s1) ELSE StartPrs(s1)

PassCatch(st, c, err) == AfterPass(Log(st, Error(c, "pass", err)), c)

\* lines 86 and 126: "Issues removed!", the end of the try block
AfterComplete(st, c) == AfterPass(Log(st, Info(c, "removed", 0)), c)

\* lines 189-191: the catch clause of completeMissingIssues
CompleteCatch(st, c, err) ==
    AfterComplete(Log(st, Error(c, "complete", err)), c)

\* lines 169-188: completeMissingIssues up to its await
completeMissingIssues(st, c) ==
    LET plan == planRetirements(st.tasks[c], st.issues[c])
        n == Len(plan)
        first == Len(st.calls)
        Call(i) == [kind |-> "complete", cat |-> c, project |-> "",
                    title |-> <<>>, id |-> plan[i].id, status |-> "pending"]
        Mark(i) == Text(c, "mark", plan[i].title)
        s1 == [st EXCEPT
                 !.calls = @ \o [i \in 1..n |-> Call(i)],
                 !.log = @ \o [i \in 1..n |-> Mark(i)]
                           \o <<Info(c, "waiting_complete", n)>>]
    IN  IF n = 0 THEN AfterComplete(s1, c)
        ELSE [s1 EXCEPT !.pc = At(c, "complete"),
                        !.awaited = (first + 1)..(first + n)]

\* lines 83-85 and 123-125: "Issues added!", then completeMissingIssues
AfterAddSkips(st, c) == AfterComplete(Log(st, Info(c, "added", 0)), c)

AfterAdd(st, c) == completeMissingIssues(Log(st, Info(c, "added", 0)), c)

\* lines 158-160: the catch clause of addNewIssues
AddCatchRethrows(st, c, err) == PassCatch(st, c, err)

\* the rejection is logged and addNewIssues never returns
AddCatchHangs(st, c, err) == Log(st, Error(c, "add", err))

AddCatch(st, c, err) == AfterAdd(Log(st, Error(c, "add", err)), c)

\* lines 140-156: addNewIssues up to its await
addNewIssues(st, c) ==
    LET plan == planCreations(st.tasks[c], st.issues[c])
        n == Len(plan)
        first == Len(st.calls)
        Call(i) == [kind |-> "create", cat |-> c, project |-> ProjectOf(c),
                    title |-> plan[i].title, id |-> 0, status |-> "pending"]
        Adding(i) == Text(c, "adding", plan[i].prefix)
        s1 == [st EXCEPT
                 !.calls = @ \o [i \in 1..n |-> Call(i)],
                 !.log = @ \o [i \in 1..n |-> Adding(i)]
                           \o <<Info(c, "waiting_add", n)>>]
    IN  IF n = 0 THEN AfterAdd(s1, c)
        ELSE [s1 EXCEPT !.pc = At(c, "add"),
                        !.awaited = (first + 1)..(first + n)]

\* lines 194-216 and 38-59: loadConfig logs the error and calls
\* process.exit(1) when the file cannot be read or parsed
loadConfigGoesOn(st, outcome) ==
    IF outcome = "ok" THEN StartIssues(st)
    ELSE StartIssues(Log(st, Error("none", "config", FetchError(outcome))))

loadConfig(st, outcome) ==
    IF outcome = "ok" THEN StartIssues(st)
    ELSE [Log(st, Error("none", "config", FetchError(outcome)))
             EXCEPT !.pc = At("none", "exit")]

\* lines 72-82 and 112-122: the remote items are mapped; tasksForProject
\* is called
ListTasks(st, c, items) ==
    [Log([st EXCEPT !.issues[c] = items], Info(c, "found", Len(items)))
        EXCEPT !.pc = At(c, "local")]

\* lines 63-70 and 104-110: map of the remote items; it throws when the
\* prefix of an item throws
Throws(c, item) == IF c = "issues" THEN IssueThrows(item) ELSE PrThrows(item)

ToTask(c, item) == IF c = "issues" THEN IssueToTask(item) ELSE PrToTask(item)

\* lines 59-74 and 101-114: the remote fetch has settled
RemoteSettledAsEmpty(st, c, ok, data) ==
    IF ~ok
    THEN ListTasks(Log(st, Error(c, "pass", FetchError("remote"))), c, <<>>)
    ELSE LET s1 == [st EXCEPT !.results[c] = data]
         IN  IF \E i \in 1..Len(data) : Throws(c, data[i])
             THEN PassCatch(s1, c, FetchError("TypeError"))
             ELSE ListTasks(s1, c,
                            [i \in 1..Len(data) |-> ToTask(c, data[i])])

\* the items whose prefix throws are left out
RemoteSettledSkips(st, c, ok, data) ==
    IF ~ok THEN PassCatch(st, c, FetchError("remote"))
    ELSE LET s1 == [st EXCEPT !.results[c] = data]
             Fine(item) == ~Throws(c, item)
             kept == SelectSeq(data, Fine)
         IN  ListTasks(s1, c, [i \in 1..Len(kept) |-> ToTask(c, kept[i])])

RemoteSettled(st, c, ok, data) ==
    IF ~ok THEN PassCatch(st, c, FetchError("remote"))
    ELSE LET s1 == [st EXCEPT !.results[c] = data]
         IN  IF \E i \in 1..Len(data) : Throws(c, data[i])
             THEN PassCatch(s1, c, FetchError("TypeError"))
             ELSE ListTasks(s1, c,
                            [i \in 1..Len(data) |-> ToTask(c, data[i])])

\* lines 95-101: users.getAuthenticated has settled; the search is called
UserSettled(st, ok) ==
    IF ~ok THEN PassCatch(st, "prs", FetchError("user"))
    ELSE [st EXCEPT !.pc = At("prs", "remote")]

\* lines 74-82 and 114-122: tasksForProject has settled; addNewIssues runs
\* the tasks of the issues project are listed for both categories
LocalSettledOther(st, c, ok) ==
    IF ~ok THEN PassCatch(st, c, FetchError("local"))
    ELSE LET CurrentTask(t) == [id |-> t.id, title |-> t.name]
             listed == tasksForProject(st.store, "GitHub Issues")
         IN  addNewIssues(
                 [st EXCEPT !.tasks[c] =
                     [i \in 1..Len(listed) |-> CurrentTask(listed[i])]], c)

LocalSettled(st, c, ok) ==
    IF ~ok THEN PassCatch(st, c, FetchError("local"))
    ELSE LET CurrentTask(t) == [id |-> t.id, title |-> t.name]
             listed == tasksForProject(st.store, ProjectOf(c))
         IN  addNewIssues(
                 [st EXCEPT !.tasks[c] =
                     [i \in 1..Len(listed) |-> CurrentTask(listed[i])]], c)

\* the promise of call i settles: the store has done the action, or not;
\* the Promise.all that waits for it (lines 156 and 188) settles with it
\* when it is the first to reject or the last to resolve
\* a rejected action is issued once more
ActionSettledRetries(st, i, ok) ==
    LET call == st.calls[i]
        done == IF ~ok THEN st.store
                ELSE IF call.kind = "create"
                THEN addNewTask(st.store, call.project, call.title,
                                newTaskTag, <<>>)
                ELSE markTaskComplete(st.store, call.id)
        Same(d) == d.kind = call.kind /\ d.cat = call.cat /\ d.id = call.id
                       /\ d.title = call.title
        again == IF ~ok /\ Len(SelectSeq(st.calls, Same)) = 1
                 THEN <<call>> ELSE <<>>
        s1 == [st EXCEPT
                 !.calls = [@ EXCEPT ![i].status =
                               IF ok THEN "resolved" ELSE "rejected"] \o again,
                 !.store = done]
        c == st.pc.cat
        s2 == [s1 EXCEPT !.awaited = {}]
    IN  IF i \notin st.awaited THEN s1
        ELSE IF ~ok
        THEN IF st.pc.at = "add" THEN AddCatch(s2, c, ActionError(i))
             ELSE CompleteCatch(s2, c, ActionError(i))
        ELSE IF \A j \in st.awaited : s1.calls[j].status = "resolved"
        THEN IF st.pc.at = "add" THEN AfterAdd(s2, c)
             ELSE AfterComplete(s2, c)
        ELSE s1

ActionSettled(st, i, ok) ==
    LET call == st.calls[i]
        done == IF ~ok THEN st.store
                ELSE IF call.kind = "create"
                THEN addNewTask(st.store, call.project, call.title,
                                newTaskTag, <<>>)
                ELSE markTaskComplete(st.store, call.id)
        s1 == [st EXCEPT
                 !.calls[i].status = IF ok THEN "resolved" ELSE "rejected",
                 !.store = done]
        c == st.pc.cat
        s2 == [s1 EXCEPT !.awaited = {}]
    IN  IF i \notin st.awaited THEN s1
        ELSE IF ~ok
        THEN IF st.pc.at = "add" THEN AddCatch(s2, c, ActionError(i))
             ELSE CompleteCatch(s2, c, ActionError(i))
        ELSE IF \A j \in st.awaited : s1.calls[j].status = "resolved"
        THEN IF st.pc.at = "add" THEN AfterAdd(s2, c)
             ELSE AfterComplete(s2, c)
        ELSE s1

(***************************************************************************)
(* The run of main().                                                      *)
(***************************************************************************)
\* the stores main() can find: at most MaxStore tasks, with distinct ids
InitialStores ==
    {st \in [Projects -> SeqUpTo([id : 1..MaxStore, name : NamePool,
                                  completed : {FALSE}], MaxStore)] :
        /\ Len(st["GitHub Issues"]) + Len(st["GitHub PRs"]) <= MaxStore
        /\ \A i \in 1..Len(st["GitHub Issues"]) : st["GitHub Issues"][i].id = i
        /\ \A i \in 1..Len(st["GitHub PRs"]) :
               st["GitHub PRs"][i].id = Len(st["GitHub Issues"]) + i}

MainInit ==
    /\ pc = At("none", "start")
    /\ results = [c \in Categories |-> <<>>]
    /\ issues = [c \in Categories |-> <<>>]
    /\ tasks = [c \in Categories |-> <<>>]
    /\ calls = <<>>
    /\ awaited = {}
    /\ log = <<>>

EngineIdle ==
    /\ engIssues = <<>>
    /\ engTasks = <<>>
    /\ engCreate = <<>>
    /\ engRetire = <<>>
    /\ engRan = {}

Init ==
    /\ MainInit
    /\ store \in InitialStores
    /\ EngineIdle

\* lines 36-59 and 194-216: loadConfig; the file is read and parsed
LoadConfig ==
    /\ pc = At("none", "start")
    /\ \E outcome \in {"ok", "unreadable", "malformed"} :
          Becomes(loadConfig(Cur, outcome))
    /\ UNCHANGED engVars

RemoteReturns ==
    /\ pc.at = "remote"
    /\ \E ok \in BOOLEAN :
       \E data \in Listings(IF pc.cat = "issues" THEN IssuePool ELSE PrPool,
                            MaxFetch) :
          /\ ok \/ data = <<>>
          /\ Becomes(RemoteSettled(Cur, pc.cat, ok, data))
    /\ UNCHANGED engVars

UserReturns ==
    /\ pc.at = "user"
    /\ \E ok \in BOOLEAN : Becomes(UserSettled(Cur, ok))
    /\ UNCHANGED engVars

LocalReturns ==
    /\ pc.at = "local"
    /\ \E ok \in BOOLEAN : Becomes(LocalSettled(Cur, pc.cat, ok))
    /\ UNCHANGED engVars

ActionReturns ==
    /\ pc.at # "exit"
    /\ \E i \in 1..Len(calls) :
          /\ calls[i].status = "pending"
          /\ \E ok \in BOOLEAN : Becomes(ActionSettled(Cur, i, ok))
    /\ UNCHANGED engVars

Next ==
    \/ LoadConfig
    \/ RemoteReturns
    \/ UserReturns
    \/ LocalReturns
    \/ ActionReturns

Spec == Init /\ [][Next]_vars

\* every external call returns or fails in the end: the awaits of main()
\* are resumed and every promise of a batch settles
LiveSpec ==
    /\ Init
    /\ [][Next]_vars
    /\ WF_vars(LoadConfig)
    /\ WF_vars(RemoteReturns)
    /\ WF_vars(UserReturns)
    /\ WF_vars(LocalReturns)
    /\ WF_vars(ActionReturns)

(***************************************************************************)
(* The engine specification: the two filters on every pair of lists.       *)
(***************************************************************************)
EngineInit ==
    /\ MainInit
    /\ store = [p \in Projects |-> <<>>]
    /\ engIssues \in SeqUpTo({IssueToTask(r) : r \in EngineIssuePool},
                             MaxRemote)
    /\ \E names \in SeqUpTo(EngineNamePool, MaxLocal) :
          engTasks = [i \in 1..Len(names) |-> [id |-> i, title |-> names[i]]]
    /\ engCreate = <<>>
    /\ engRetire = <<>>
    /\ engRan = {}

PlanCreations ==
    /\ "create" \notin engRan
    /\ engCreate' = planCreations(engTasks, engIssues)
    /\ engRan' = engRan \cup {"create"}
    /\ UNCHANGED <<engIssues, engTasks, engRetire>>
    /\ UNCHANGED mainVars

PlanRetirements ==
    /\ "retire" \notin engRan
    /\ engRetire' = planRetirements(engTasks, engIssues)
    /\ engRan' = engRan \cup {"retire"}
    /\ UNCHANGED <<engIssues, engTasks, engCreate>>
    /\ UNCHANGED mainVars

EngineNext == PlanCreations \/ PlanRetirements

EngineSpec == EngineInit /\ [][EngineNext]_vars

(***************************************************************************)
(* Properties of the two filters (EngineSpec).                             *)
(***************************************************************************)
\* p is a prefix of s
IsPrefixOf(p, s) == \E k \in 0..Len(s) : SubSeq(s, 1, k) = p

Range(q) == {q[i] : i \in 1..Len(q)}

\* the positions of R that some title of L matches
MatchedIn(R, L) ==
    {i \in 1..Len(R) : \E j \in 1..Len(L) : IsPrefixOf(R[i].prefix, L[j].title)}

\* the positions of L whose title no identifier of R is a prefix of
StaleIn(L, R) ==
    {j \in 1..Len(L) :
        ~\E i \in 1..Len(R) : IsPrefixOf(R[i].prefix, L[j].title)}

\* C1: the creation plan is exactly the remote items that no local title
\* starts with the identifier of; one matching local item excludes an item,
\* and so do several.
C1_PlanCreationsExact ==
    "create" \in engRan =>
        LET create == (1..Len(engIssues)) \ MatchedIn(engIssues, engTasks)
        IN  /\ Range(engCreate) = {engIssues[i] : i \in create}
            /\ Len(engCreate) = Cardinality(create)

\* a remote item that two local items match is left out, another is planned
C1_Witness ==
    /\ "create" \in engRan
    /\ Len(engCreate) = 1
    /\ \E i \in 1..Len(engIssues) :
          Cardinality({j \in 1..Len(engTasks) :
              IsPrefixOf(engIssues[i].prefix, engTasks[j].title)}) = 2

\* C2: the retirement plan is exactly the local items whose title starts with
\* no remote identifier; it is empty iff every local title has a remote
\* identifier as a prefix, it is all of L when R is empty, and empty when L
\* is empty.
C2_PlanRetirementsExact ==
    "retire" \in engRan =>
        LET stale == StaleIn(engTasks, engIssues)
        IN  /\ Range(engRetire) = {engTasks[j] : j \in stale}
            /\ Len(engRetire) = Cardinality(stale)
            /\ engRetire = <<>> <=>
                   \A j \in 1..Len(engTasks) : \E i \in 1..Len(engIssues) :
                       IsPrefixOf(engIssues[i].prefix, engTasks[j].title)
            /\ engIssues = <<>> => engRetire = engTasks
            /\ engTasks = <<>> => engRetire = <<>>

\* one local item is retired and one is kept
C2_Witness ==
    /\ "retire" \in engRan
    /\ Len(engTasks) = 2
    /\ Len(engRetire) = 1
    /\ engIssues # <<>>

\* C3: every remote item is either in the creation plan or matched by a
\* local title, never both and never neither.
C3_Partition ==
    "create" \in engRan =>
        /\ Range(engCreate) \subseteq Range(engIssues)
        /\ \A i \in 1..Len(engIssues) :
              (engIssues[i] \in Range(engCreate))
                  # (i \in MatchedIn(engIssues, engTasks))

\* one remote item of each class
C3_Witness ==
    /\ "create" \in engRan
    /\ \E i, k \in 1..Len(engIssues) :
          /\ engIssues[i] \in Range(engCreate)
          /\ k \in MatchedIn(engIssues, engTasks)
          /\ Len(engTasks[1].title) > Len(engIssues[k].prefix)

(***************************************************************************)
(* Properties of a run of main() (Spec).                                   *)
(***************************************************************************)
CallsOf(c, kind) ==
    {i \in 1..Len(calls) : calls[i].cat = c /\ calls[i].kind = kind}

Logged(c, kind) == \E k \in 1..Len(log) : log[k].cat = c /\ log[k].kind = kind

\* the fetch `what` of category c failed
FetchFailed(c, what) ==
    \E k \in 1..Len(log) : log[k] = Error(c, "pass", FetchError(what))

\* the local list a new pass of category c would be given
ListedNow(c) ==
    LET CurrentTask(t) == [id |-> t.id, title |-> t.name]
        listed == tasksForProject(store, ProjectOf(c))
    IN  [i \in 1..Len(listed) |-> CurrentTask(listed[i])]

\* C4: once every creation planned by a pass has been applied, a second
\* reconciliation of the same remote items against the store plans no
\* creation, and does not retire a task the pass created.
C4_Idempotent ==
    \A c \in Categories :
        (/\ Logged(c, "waiting_add")
         /\ \A i \in CallsOf(c, "create") : calls[i].status = "resolved")
        => /\ planCreations(ListedNow(c), issues[c]) = <<>>
           /\ \A t \in Range(planRetirements(ListedNow(c), issues[c])) :
                  t \in Range(tasks[c])

\* two creations of the issues pass have been applied
C4_Witness ==
    /\ Cardinality(CallsOf("issues", "create")) = 2
    /\ \A i \in CallsOf("issues", "create") : calls[i].status = "resolved"
    /\ Len(ListedNow("issues")) > Len(tasks["issues"])

\* C5: after a pass whose fetches and actions all succeeded, every remote
\* item has an open task whose name starts with its identifier, and every
\* open task of the project starts with the identifier of a remote item.
C5_Mirror ==
    \A c \in Categories :
        (/\ Logged(c, "removed")
         /\ \A i \in 1..Len(calls) :
               calls[i].cat = c => calls[i].status = "resolved")
        => LET open == tasksForProject(store, ProjectOf(c))
           IN  /\ \A i \in 1..Len(issues[c]) : \E j \in 1..Len(open) :
                     IsPrefixOf(issues[c][i].prefix, open[j].name)
               /\ \A j \in 1..Len(open) : \E i \in 1..Len(issues[c]) :
                     IsPrefixOf(issues[c][i].prefix, open[j].name)

\* a pass that created two tasks and completed one
C5_Witness ==
    /\ Logged("issues", "removed")
    /\ \A i \in 1..Len(calls) : calls[i].status = "resolved"
    /\ CallsOf("issues", "complete") # {}
    /\ Len(tasksForProject(store, "GitHub Issues")) = 2

\* the issues pass is over: its try block has ended or its catch clause ran
PassOver(c) == Logged(c, "removed") \/ Logged(c, "pass")

\* the pull-request pass has begun
PrsStarted == pc.cat = "prs" \/ \E k \in 1..Len(log) : log[k].cat = "prs"

\* C6: however the issues pass ends, the pull-request pass is started, and
\* main() does not return before the pull-request pass has ended.
C6_Isolated ==
    /\ PassOver("issues") => PrsStarted
    /\ pc.at = "returned" => PassOver("prs")

\* the issues pass failed and the pull-request pass ran to its end
C6_Witness ==
    /\ Logged("issues", "pass")
    /\ Logged("prs", "removed")

\* C7: when the remote fetch or the local fetch of a category fails, no
\* create and no complete is issued for that category.
C7_FetchFatal ==
    \A c \in Categories :
        (FetchFailed(c, "remote") \/ FetchFailed(c, "local")
            \/ FetchFailed(c, "user"))
        => CallsOf(c, "create") \cup CallsOf(c, "complete") = {}

\* the remote fetch of the issues failed while the project holds tasks
C7_Witness ==
    /\ FetchFailed("issues", "remote")
    /\ tasksForProject(store, "GitHub Issues") # <<>>

\* C8: in a pass whose fetches succeeded every planned creation is issued,
\* and once addNewIssues is over, also after a creation failed, every
\* planned retirement is issued.
C8_BestEffort ==
    \A c \in Categories :
        Logged(c, "waiting_add") =>
            LET create == planCreations(tasks[c], issues[c])
                retire == planRetirements(tasks[c], issues[c])
            IN  /\ {calls[i].title : i \in CallsOf(c, "create")}
                       = {r.title : r \in Range(create)}
                /\ Cardinality(CallsOf(c, "create")) = Len(create)
                /\ pc # At(c, "add") =>
                      /\ Logged(c, "waiting_complete")
                      /\ {calls[i].id : i \in CallsOf(c, "complete")}
                             = {t.id : t \in Range(retire)}

\* a creation failed, its sibling was issued, and so was a retirement
C8_Witness ==
    /\ Logged("issues", "add")
    /\ Cardinality(CallsOf("issues", "create")) = 2
    /\ CallsOf("issues", "complete") # {}

\* C9 as stated: every create or complete that fails is logged.
C9_EveryFailureLogged ==
    \A i \in 1..Len(calls) :
        calls[i].status = "rejected" =>
            \E k \in 1..Len(log) :
                /\ log[k].level = "error"
                /\ log[k].err = ActionError(i)

\* C10 as stated: no complete of a category is issued while a create of
\* that category is in flight.
C10_CreatesBeforeCompletes ==
    \A c \in Categories :
        (\E i \in CallsOf(c, "create") : calls[i].status = "pending")
            => CallsOf(c, "complete") = {}

\* C11 as stated: when a pass reports its creations done no create of the
\* category is in flight, and when the pass is over (so when the next pass
\* begins, and when main() returns) no action of the category is in flight.
C11_FanIn ==
    \A c \in Categories :
        /\ Logged(c, "added") =>
              \A i \in CallsOf(c, "create") : calls[i].status # "pending"
        /\ PassOver(c) =>
              \A i \in 1..Len(calls) :
                  calls[i].cat = c => calls[i].status # "pending"

\* C12: when the URL of a pull request does not match the expression, the
\* error reaches the catch clause of the pull-request pass: the pass goes no
\* further, so no list without that item is reconciled and no create and no
\* complete is issued.
C12_MalformedPropagates ==
    (\E i \in 1..Len(results["prs"]) :
        UrlMatch(results["prs"][i].html_url).null)
    => /\ FetchFailed("prs", "TypeError")
       /\ ~Logged("prs", "found")
       /\ issues["prs"] = <<>>
       /\ CallsOf("prs", "create") \cup CallsOf("prs", "complete") = {}

\* the search returned a well-formed and a malformed pull request, and the
\* project holds a task
C12_Witness ==
    /\ Len(results["prs"]) = 2
    /\ \E i \in 1..2 : UrlMatch(results["prs"][i].html_url).null
    /\ \E i \in 1..2 : ~UrlMatch(results["prs"][i].html_url).null
    /\ tasksForProject(store, "GitHub PRs") # <<>>

\* the configuration file could not be read or parsed
ConfigFailed == \E k \in 1..Len(log) : log[k].kind = "config"

\* C13: when the configuration cannot be read or parsed the process has
\* exited, and no remote fetch, local fetch, create or complete has taken
\* place.
C13_ConfigFatal ==
    ConfigFailed =>
        /\ pc = At("none", "exit")
        /\ Len(log) = 1
        /\ calls = <<>>
        /\ \A c \in Categories :
              results[c] = <<>> /\ issues[c] = <<>> /\ tasks[c] = <<>>

\* the configuration is malformed and the store holds a task
C13_Witness ==
    /\ log = <<Error("none", "config", FetchError("malformed"))>>
    /\ AllStoreTasks(store) # {}

\* the phase of the pass of category c; RECONCILING has no suspension
\* point: the filters run inside the step that leaves FETCHING
Phase(c) ==
    IF pc.cat = c
    THEN IF pc.at \in {"user", "remote", "local"} THEN "FETCHING"
         ELSE "APPLYING"
    ELSE IF Logged(c, "removed") THEN "DONE"
    ELSE IF Logged(c, "pass") THEN "FAILED"
    ELSE "IDLE"

PhaseEdges ==
    {<<"IDLE", "FETCHING">>, <<"FETCHING", "APPLYING">>,
     <<"FETCHING", "DONE">>, <<"APPLYING", "DONE">>,
     <<"FETCHING", "FAILED">>, <<"APPLYING", "FAILED">>}

Times(c, kind) ==
    Cardinality({k \in 1..Len(log) : log[k].cat = c /\ log[k].kind = kind})

\* the positions in the log of the entries of category c of that kind
Where(c, kind) == {k \in 1..Len(log) : log[k].cat = c /\ log[k].kind = kind}

Before(A, B) == \A a \in A : \A b \in B : a < b

PhaseInvariant ==
    \A c \in Categories :
        \* no phase follows DONE or FAILED, and a pass ends in one of them
        /\ pc.cat = c => ~PassOver(c)
        /\ ~(Logged(c, "removed") /\ Logged(c, "pass"))
        \* no phase is repeated
        /\ \A kind \in {"found", "waiting_add", "added", "waiting_complete",
                        "removed", "pass"} : Times(c, kind) <= 1
        \* APPLYING and DONE come after FETCHING and RECONCILING, in order
        /\ Phase(c) \in {"APPLYING", "DONE"} =>
              /\ Logged(c, "found")
              /\ Logged(c, "waiting_add")
        /\ Phase(c) = "DONE" => Logged(c, "waiting_complete")
        /\ Before(Where(c, "found"), Where(c, "waiting_add"))
        /\ Before(Where(c, "waiting_add"), Where(c, "added"))
        /\ Before(Where(c, "added"), Where(c, "waiting_complete"))
        /\ Before(Where(c, "waiting_complete"), Where(c, "removed"))
        \* FAILED comes from a fetch or from an action, not from the filters
        /\ \A k \in Where(c, "pass") :
              log[k].err.src \in {"user", "remote", "TypeError", "local",
                                  "action"}

\* C14: a pass goes FETCHING, RECONCILING, APPLYING, DONE in this order, no
\* phase is skipped or repeated, and FAILED is entered from FETCHING or from
\* APPLYING only.
C14_PhaseOrder ==
    /\ []PhaseInvariant
    /\ [][\A c \in Categories :
             Phase(c)' # Phase(c) => <<Phase(c), Phase(c)'>> \in PhaseEdges]_vars

\* the issues pass is DONE after a failed action, the other pass has FAILED
C14_Witness ==
    /\ Phase("issues") = "DONE"
    /\ Logged("issues", "add")
    /\ Phase("prs") = "FAILED"

\* no two entries of the sequence q have the same identifier
DistinctPrefixes(q) ==
    \A i, j \in 1..Len(q) : q[i].prefix = q[j].prefix => i = j

\* C15 as stated: for every remote list and local list, no two entries of
\* the creation plan have the same identifier.
C15_NoDuplicate == "create" \in engRan => DistinctPrefixes(engCreate)

\* C15 as amended: when no two remote items have the same identifier, no two
\* entries of the creation plan have the same identifier.
C15_NoDuplicateOfDistinct ==
    ("create" \in engRan /\ DistinctPrefixes(engIssues))
        => DistinctPrefixes(engCreate)

\* two remote items of different identifiers, both planned, beside two local
\* items
C15_Witness ==
    /\ "create" \in engRan
    /\ DistinctPrefixes(engIssues)
    /\ Len(engCreate) = 2
    /\ Len(engTasks) = 2

\* the creates, and the completes, issued for category c, in order
CreatesOf(c) ==
    LET Is(d) == d.cat = c /\ d.kind = "create"
    IN  SelectSeq(calls, Is)

CompletesOf(c) ==
    LET Is(d) == d.cat = c /\ d.kind = "complete"
    IN  SelectSeq(calls, Is)

\* C16: the store's create is invoked exactly once for each entry of the
\* creation plan and its complete exactly once for each entry of the
\* retirement plan, whatever fails; no fetch is made again after a failure.
C16_NoRetry ==
    \A c \in Categories :
        LET create == planCreations(tasks[c], issues[c])
            retire == planRetirements(tasks[c], issues[c])
        IN  /\ CreatesOf(c) # <<>> => Logged(c, "waiting_add")
            /\ Logged(c, "waiting_add") =>
                  /\ Len(CreatesOf(c)) = Len(create)
                  /\ \A i \in 1..Len(create) :
                        CreatesOf(c)[i].title = create[i].title
            /\ CompletesOf(c) # <<>> => Logged(c, "waiting_complete")
            /\ Logged(c, "waiting_complete") =>
                  /\ Len(CompletesOf(c)) = Len(retire)
                  /\ \A i \in 1..Len(retire) :
                        CompletesOf(c)[i].id = retire[i].id
            /\ Times(c, "found") <= 1
            /\ Times(c, "pass") <= 1
            /\ PassOver(c) => pc.cat # c

\* a create and a complete of the issues pass have failed, the run is over
C16_Witness ==
    /\ pc.at = "returned"
    /\ \E i \in CallsOf("issues", "create") : calls[i].status = "rejected"
    /\ \E i \in CallsOf("issues", "complete") : calls[i].status = "rejected"
    /\ \A i \in 1..Len(calls) : calls[i].status # "pending"

\* the number of times the pass of category c has ended
Endings(c) == Times(c, "removed") + Times(c, "pass")

\* C17: once the passes have begun main() returns in the end, with each
\* pass ended (DONE or FAILED) exactly once, whatever action fails.
C17_Terminates ==
    /\ (pc.cat \in Categories) ~>
           (pc.at = "returned" /\ \A c \in Categories : PassOver(c))
    /\ [](\A c \in Categories : Endings(c) <= 1)
    /\ [](pc.at = "returned" => \A c \in Categories : Endings(c) = 1)

\* main() has returned after a create of each pass had failed
C17_Witness ==
    /\ pc.at = "returned"
    /\ Logged("issues", "add")
    /\ Logged("prs", "add")

\* C18: in a pass, no retired local item has a title that starts with the
\* identifier of a created remote item, and every completed task is one of
\* the tasks listed before the batch of creations, so not a created one.
C18_Disjoint ==
    \A c \in Categories :
        \A j \in CallsOf(c, "complete") :
            /\ \E t \in Range(tasks[c]) : t.id = calls[j].id
            /\ \A t \in Range(tasks[c]) : \A i \in CallsOf(c, "create") :
                  \A r \in Range(issues[c]) :
                      (t.id = calls[j].id /\ r.title = calls[i].title)
                          => ~IsPrefixOf(r.prefix, t.title)
            /\ \A p \in Projects : \A k \in 1..Len(store[p]) :
                  (\E i \in CallsOf(c, "create") :
                       /\ calls[i].status = "resolved"
                       /\ store[p][k].name = calls[i].title
                       /\ \A t \in Range(tasks[c]) : t.id # store[p][k].id)
                  => store[p][k].id # calls[j].id

\* a pass has created a task and completed another
C18_Witness ==
    \E c \in Categories :
        /\ \E i \in CallsOf(c, "create") : calls[i].status = "resolved"
        /\ \E j \in CallsOf(c, "complete") : calls[j].status = "resolved"

\* the title is the canonical title '<identifier> <text>' of that identifier
TitleOf(title, prefix) == IsPrefixOf(prefix \o <<" ">>, title)

\* C19 as stated: with identifiers '<org>/<repo>#<number>' and canonical
\* titles, a remote item that has no local task of its own is planned for
\* creation, and a local task whose own remote item is gone is planned for
\* retirement.
C19_NoFalseMatch ==
    /\ "create" \in engRan =>
          \A i \in 1..Len(engIssues) :
              (~\E j \in 1..Len(engTasks) :
                    TitleOf(engTasks[j].title, engIssues[i].prefix))
              => engIssues[i] \in Range(engCreate)
    /\ "retire" \in engRan =>
          \A j \in 1..Len(engTasks) : \A a \in EngineIssuePool :
              (/\ engTasks[j].title = IssueToTask(a).title
               /\ ~\E i \in 1..Len(engIssues) :
                     engIssues[i].prefix = IssuePrefix(a))
              => engTasks[j] \in Range(engRetire)

\* the ids of the tasks the store holds in a project
IdsIn(project) == {store[project][k].id : k \in 1..Len(store[project])}

\* C20: the issues pass creates in 'GitHub Issues' only and completes only
\* tasks of 'GitHub Issues', the pull-request pass creates in 'GitHub PRs'
\* only and completes only tasks of 'GitHub PRs'; a listed task that matches
\* a remote item of its category stays as it was.
C20_Frame ==
    /\ \A i \in 1..Len(calls) :
          LET own == IF calls[i].cat = "issues" THEN "GitHub Issues"
                     ELSE "GitHub PRs"
              other == IF calls[i].cat = "issues" THEN "GitHub PRs"
                       ELSE "GitHub Issues"
          IN  IF calls[i].kind = "create" THEN calls[i].project = own
              ELSE /\ calls[i].id \in IdsIn(own)
                   /\ calls[i].id \notin IdsIn(other)
                   /\ \E t \in Range(tasks[calls[i].cat]) : t.id = calls[i].id
    /\ \A c \in Categories : \A t \in Range(tasks[c]) :
          (\E r \in Range(issues[c]) : IsPrefixOf(r.prefix, t.title))
          => \E p \in Projects : \E k \in 1..Len(store[p]) :
                 store[p][k] = [id |-> t.id, name |-> t.title,
                                completed |-> FALSE]

\* both passes have acted while the issues project holds a task that matches
\* a remote issue
C20_Witness ==
    /\ CallsOf("issues", "create") # {}
    /\ CallsOf("prs", "create") # {}
    /\ \E t \in Range(tasks["issues"]) : \E r \in Range(issues["issues"]) :
          IsPrefixOf(r.prefix, t.title)
    /\ pc.at = "returned"

====
